---- MODULE Spec2Model ----
(***************************************************************************)
(* TLSReuseClient: one TLS connection per host:port, reused for HTTP/1.1   *)
(* or HTTP/2 according to the negotiated ALPN protocol.                    *)
(*                                                                         *)
(* JavaScript runs one callback at a time, so every action below is one    *)
(* run-to-completion step: the code between two awaits (or one event       *)
(* handler of the TLS / HTTP engines).  A request() call is a task; the    *)
(* socket opened by task t is socket t, the connection object created for  *)
(* it is connection t, and the HTTP/2 session created by task t is session *)
(* t (a call opens at most one socket and creates at most one session).    *)
(***************************************************************************)
EXTENDS Integers, Sequences, FiniteSets, TLC

\* The number of request() calls the caller makes directly in one run.
MaxTasks == 2

\* The largest count the caller passes to multipleRequests().
MaxCount == 4
MaxConnections == 2

TaskIds == 1..(IF MaxTasks > MaxCount THEN MaxTasks ELSE MaxCount)

\* `parseInt(parsedUrl.port) || 443`
DefaultPort == 443

\* The URLs the caller asks for.  The WHATWG URL parser reports the port as
\* "" when the URL has none (or has the scheme's default).
URLs ==
  { [hostname |-> "localhost", port |-> "", pathname |-> "/test"],
    [hostname |-> "localhost", port |-> "", pathname |-> "/other"],
    [hostname |-> "example.test", port |-> "8443", pathname |-> "/test"] }

\* A URL with the port 0, which the URL parser reports as "0".
ZeroPortURL == [hostname |-> "localhost", port |-> "0", pathname |-> "/test"]

\* A port on which no server listens.
BadPort == 9999

\* A URL for the port without a server.
DownURL == [hostname |-> "localhost", port |-> "9999", pathname |-> "/test"]

\* parseInt on the port strings of URLs and on the values of ':status';
\* NaN is represented by 0 (both falsy).  parseInt converts its argument to a
\* string first, so the number 200 the engine delivers and "200" are the same
\* argument to it.
ParseInt(s) ==
  CASE s = "8443" -> 8443
    [] s = "9999" -> 9999
    [] s = "443" -> 443
    [] s = "200" -> 200
    [] s = "404" -> 404
    [] OTHER -> 0

\* The header names a response block is drawn from: the response
\* pseudo-header, two ordinary names, and a name that is a valid HTTP/2 field
\* name and also the name of the accessor every object literal inherits.
HeaderNames == {":status", "content-type", "x-custom", "__proto__"}

\* The values a peer sends under a name.
HeaderValues(name) ==
  CASE name = ":status" -> {"200", "404"}
    [] name = "content-type" -> {"text/plain", "application/json"}
    [] name = "x-custom" -> {"a", "b"}
    [] OTHER -> {"x"}

\* The response header blocks: the object the 'response' event hands over, with
\* one own property per header received.
HeaderBlocks ==
  UNION { { h \in [D -> UNION { HeaderValues(n) : n \in D }] :
              \A n \in D : h[n] \in HeaderValues(n) } :
          D \in SUBSET HeaderNames }

\* key.startsWith(':')
StartsWithColon(key) == key \in {":status", ":method", ":path", ":scheme", ":authority"}

\* const connectionKey = `${hostname}:${port}`
ConnectionKey(url) ==
  LET port == IF ParseInt(url.port) # 0 THEN ParseInt(url.port) ELSE DefaultPort
  IN  <<url.hostname, port>>

Keys == { ConnectionKey(u) : u \in URLs }

\* Whether a server accepts TLS connections for the key.
Listening(key) == key[2] # BadPort

NoKey == <<"", 0>>
NoUrl == [hostname |-> "", port |-> "", pathname |-> ""]

\* What the server's ALPN selection leaves in socket.alpnProtocol: one of the
\* offered protocols, or false ("false") when none was selected.
AlpnResults == {"h2", "http/1.1", "false"}

\* The ALPN offer of every tls.connect().
ALPNProtocols == <<"h2", "http/1.1">>

\* The HTTP version of an HTTP/1.x response as the parser reports it.
ResponseVersions == {"1.1", "1.0"}

\* The URLs of the runs that exercise two host:ports.
TwoKeyURLs == { u \in URLs : u.pathname = "/test" }

\* The URLs of the runs that exercise the cache key.
PortURLs == URLs \cup {ZeroPortURL}

\* The URLs of the runs that exercise one host:port.
OneKeyURLs == { u \in URLs : u.port = "" /\ u.pathname = "/test" }

VARIABLES
  connectionCache,  \* Map<string, CachedConnection>, in insertion order
  sockets,          \* the TLS sockets, by the task that opened them
  connections,      \* the CachedConnection objects { socket, session? }
  sessions,         \* the HTTP/2 sessions, by the task that created them
  tasks,            \* the request() calls
  batch,            \* the multipleRequests() call
  disturbed,        \* history: the keys whose reuse precondition was broken
  sessionErrors,    \* the 'error' event of each HTTP/2 session: none, pending, logged
  events,           \* MockHTTPSServer.events, the event log of the mock server
  handshakes,       \* the connections the mock server has accepted, as its engine sees them
  stream            \* the closure of one HTTP/2 request: req, headers, statusCode

serverVars == <<events, handshakes>>

vars ==
  <<connectionCache, sockets, connections, sessions, tasks, batch, disturbed,
    sessionErrors, stream, events, handshakes>>

clientVars ==
  <<connectionCache, sockets, connections, sessions, tasks, batch, disturbed,
    sessionErrors>>

----------------------------------------------------------------------------
\* The insertion-ordered Map.

MapIndex(m, k) ==
  IF \E i \in 1..Len(m) : m[i].key = k
  THEN CHOOSE i \in 1..Len(m) : m[i].key = k
  ELSE 0

MapHas(m, k) == MapIndex(m, k) # 0

MapGet(m, k) == m[MapIndex(m, k)].connection

\* A set() that adds an entry without looking for the key; C11 tells it from
\* MapSet.
MapSetAppend(m, k, c) == Append(m, [key |-> k, connection |-> c])

MapSet(m, k, c) ==
  IF MapHas(m, k)
  THEN [m EXCEPT ![MapIndex(m, k)].connection = c]
  ELSE Append(m, [key |-> k, connection |-> c])

MapDelete(m, k) == SelectSeq(m, LAMBDA e : e.key # k)

getCachedSocketCount == Len(connectionCache)

----------------------------------------------------------------------------
\* The client's state as one value, so that the steps of a handler compose.
\* teardown lists the close / destroy calls a step makes, in order; it is not
\* part of the state.

State ==
  [ connectionCache |-> connectionCache, sockets |-> sockets,
    connections |-> connections, sessions |-> sessions, tasks |-> tasks,
    batch |-> batch, disturbed |-> disturbed, sessionErrors |-> sessionErrors,
    teardown |-> <<>> ]

Becomes(S) ==
  /\ connectionCache' = S.connectionCache
  /\ sockets' = S.sockets
  /\ connections' = S.connections
  /\ sessions' = S.sessions
  /\ tasks' = S.tasks
  /\ batch' = S.batch
  /\ disturbed' = S.disturbed
  /\ sessionErrors' = S.sessionErrors
  /\ stream' = stream
  /\ UNCHANGED serverVars

FreshSocket ==
  [ state |-> "none", key |-> NoKey, alpnProtocol |-> "null",
    ALPNProtocols |-> <<>>, servername |-> "",
    destroyed |-> FALSE, readable |-> FALSE, writable |-> FALSE ]

\* A request() call: where it stands and its locals.  Once its promise has
\* settled only the outcome and the URL are left of it.
FreshTask ==
  [ pc |-> "idle", url |-> NoUrl, reuseSocket |-> FALSE, branch |-> "none",
    connection |-> 0, path |-> "none", session |-> 0, closedAll |-> FALSE ]

\* A multipleRequests() call: its arguments, the request() calls it has made
\* (issued), the value each of them resolved with (results) and the list it
\* returns (responses).
IdleBatch ==
  [ pc |-> "idle", url |-> NoUrl, count |-> 0, reuseSocket |-> FALSE,
    isHttp2 |-> FALSE, issued |-> <<>>, results |-> <<>>, responses |-> <<>> ]

NoResult == [ httpVersion |-> "", alpnProtocol |-> "", request |-> 0 ]

TaskKey(t) == ConnectionKey(tasks[t].url)

\* The tasks not yet used; calls take them in order.
NextTaskOf(S) ==
  IF \E t \in TaskIds : S.tasks[t].pc = "idle"
  THEN CHOOSE t \in TaskIds :
         S.tasks[t].pc = "idle" /\ \A u \in 1..(t-1) : S.tasks[u].pc # "idle"
  ELSE 0

FreeTasks == Cardinality({ t \in TaskIds : tasks[t].pc = "idle" })

Started == Cardinality({ t \in TaskIds : tasks[t].pc # "idle" })

\* The calls a running multipleRequests has still to make.
Reserved ==
  IF batch.pc \in {"first", "seq"} THEN batch.count - Len(batch.issued) ELSE 0

Settled(task) == task.pc \in {"resolved", "rejected"}

\* A completed TLS handshake towards key k: the server saw a secureConnection.
HandshakesIn(S, k) ==
  Cardinality({ s \in TaskIds : S.sockets[s].key = k /\ S.sockets[s].state = "connected" })

Handshakes(k) == HandshakesIn(State, k)

----------------------------------------------------------------------------
\* A connect that puts the socket in the cache as soon as tls.connect() has
\* been called; C15 tells it from createTLSConnection.
createTLSConnectionCachingEarly(S, t, key) ==
  [S EXCEPT !.sockets[t] = [FreshSocket EXCEPT !.state = "connecting", !.key = key,
                                               !.ALPNProtocols = ALPNProtocols,
                                               !.servername = key[1]],
            !.connections[t] = [socket |-> t, session |-> 0],
            !.connectionCache = MapSet(@, key, t),
            !.tasks[t].pc = "connecting"]

\* A connect that offers only the protocol an earlier connection to the same
\* host:port negotiated; C18 tells it from createTLSConnection.
createTLSConnectionRemembering(S, t, key) ==
  LET earlier == { s \in TaskIds : S.sockets[s].key = key /\ S.sockets[s].state = "connected"
                                    /\ S.sockets[s].alpnProtocol # "false" }
  IN  [S EXCEPT !.sockets[t] =
                   [FreshSocket EXCEPT !.state = "connecting", !.key = key,
                      !.ALPNProtocols =
                         IF earlier = {} THEN ALPNProtocols
                         ELSE <<S.sockets[CHOOSE s \in earlier : TRUE].alpnProtocol>>,
                      !.servername = key[1]],
                !.tasks[t].pc = "connecting"]

\* createTLSConnection: tls.connect() is called at once; the promise settles
\* later (ConnectResolved / ConnectRejected).
createTLSConnection(S, t, key) ==
  [S EXCEPT !.sockets[t] = [FreshSocket EXCEPT !.state = "connecting", !.key = key,
                                               !.ALPNProtocols = ALPNProtocols,
                                               !.servername = key[1]],
            !.tasks[t].pc = "connecting"]

\* A promise of request() rejects: the 'error' handlers of createTLSConnection
\* and of both request paths, and an exception thrown in a promise executor.
\* A multipleRequests that made the call sees the rejection.
\* A rejection that starts another connection attempt for the call instead;
\* C26 tells it from Reject.
RejectWithRetry(S, t) == createTLSConnection(S, t, ConnectionKey(S.tasks[t].url))

Reject(S, t) ==
  [S EXCEPT !.tasks[t] = [FreshTask EXCEPT !.pc = "rejected", !.url = S.tasks[t].url]]

\* A request path that drops the cache entry of its host:port once it has
\* the response; C14 tells it from Resolve.
ResolveAndForget(S, t, value) ==
  [S EXCEPT !.tasks[t] = [FreshTask EXCEPT !.pc = "resolved", !.url = S.tasks[t].url],
            !.connectionCache = MapDelete(@, ConnectionKey(S.tasks[t].url))]

\* A promise of request() resolves with a ClientResponse; a multipleRequests
\* that made the call gets the value.
Resolve(S, t, value) ==
  LET S1 == [S EXCEPT !.tasks[t] = [FreshTask EXCEPT !.pc = "resolved",
                                                     !.url = S.tasks[t].url]]
  IN  IF \E i \in 1..Len(S.batch.issued) : S.batch.issued[i] = t
      THEN [S1 EXCEPT !.batch.results =
              [i \in 1..Len(S.batch.issued) |->
                 IF S.batch.issued[i] = t THEN value ELSE S.batch.results[i]]]
      ELSE S1

\* makeHttp1Request: http.request over the given socket, then req.end().
makeHttp1Request(S, t, c) ==
  [S EXCEPT !.tasks[t].pc = "inflight", !.tasks[t].path = "http1",
            !.tasks[t].connection = c]

\* `!connection.session || connection.session.destroyed`
NeedsNewSession(S, c) ==
  \/ S.connections[c].session = 0
  \/ S.sessions[S.connections[c].session].destroyed

\* makeHttp2Request: create or reuse the session of the connection, then
\* session.request() and req.end().  session.request() throws on a session
\* that is already closed (GOAWAY), which rejects the promise.
makeHttp2Request(S, t, c) ==
  LET fresh == NeedsNewSession(S, c)
      x == IF fresh THEN t ELSE S.connections[c].session
      S1 == IF fresh
            THEN [S EXCEPT !.connections[c].session = t,
                           !.sessions[t] = [ socket |-> S.connections[c].socket,
                                             closed |-> FALSE, destroyed |-> FALSE ]]
            ELSE S
  IN  IF S1.sessions[x].closed
      THEN Reject(S1, t)
      ELSE [S1 EXCEPT !.tasks[t].path = "http2", !.tasks[t].connection = c,
                      !.tasks[t].session = x, !.tasks[t].pc = "inflight"]

\* A handler that treats the session's error as fatal: destroys the socket
\* and the session, drops the cache entries of the connection and rejects the
\* requests pending on the session; C20 tells it from OnSessionError.
OnSessionErrorFatal(S, x) ==
  LET pending == { t \in TaskIds : S.tasks[t].session = x /\ S.tasks[t].pc = "inflight" }
  IN  [S EXCEPT
        !.sessionErrors[x] = "logged",
        !.sessions[x].closed = TRUE, !.sessions[x].destroyed = TRUE,
        !.sockets[S.sessions[x].socket].destroyed = TRUE,
        !.connectionCache =
           SelectSeq(@, LAMBDA e : S.connections[e.connection].session # x),
        !.tasks = [t \in TaskIds |->
                     IF t \in pending THEN [@[t] EXCEPT !.pc = "rejected"] ELSE @[t]]]

\* connection.session.on('error', (err) => console.error(...)): the error is
\* written to the console and nothing else is done.
OnSessionError(S, x) == [S EXCEPT !.sessionErrors[x] = "logged"]

\* A dispatch that takes the HTTP/2 path on every socket; C24 tells it from
\* UseHttp2.
UseHttp2Always(alpnProtocol) == TRUE

\* A dispatch that takes the HTTP/2 path whenever some protocol was
\* negotiated; C2 tells it from UseHttp2.
UseHttp2IfNegotiated(alpnProtocol) == alpnProtocol # "false"

\* `if (alpnProtocol === 'h2')`
UseHttp2(alpnProtocol) == alpnProtocol = "h2"

\* The tail of request(): read the negotiated protocol off the connection's
\* socket and take the matching path.
Dispatch(S, t, c) ==
  IF UseHttp2(S.sockets[S.connections[c].socket].alpnProtocol)
  THEN makeHttp2Request(S, t, c)
  ELSE makeHttp1Request(S, t, c)

\* The liveness check with one negation lost; C1 tells it from Unusable.
UnusableNegationLost(socket) == socket.destroyed \/ socket.readable \/ ~socket.writable

\* `socket.destroyed || !socket.readable || !socket.writable`
Unusable(socket) == socket.destroyed \/ ~socket.readable \/ ~socket.writable

\* session.close()
SessionClose(S, x) ==
  [S EXCEPT !.sessions[x].closed = TRUE,
            !.teardown = Append(@, [op |-> "session.close", id |-> x])]

\* socket.destroy()
SocketDestroy(S, s) ==
  [S EXCEPT !.sockets[s].destroyed = TRUE, !.sockets[s].readable = FALSE,
            !.sockets[s].writable = FALSE,
            !.teardown = Append(@, [op |-> "socket.destroy", id |-> s])]

\* A teardown that leaves the session alone; C13 tells it from
\* CloseSessionOf.
CloseSessionOfNever(S, c) == S

\* `if (connection.session && !connection.session.destroyed) session.close()`
CloseSessionOf(S, c) ==
  LET x == S.connections[c].session
  IN  IF x # 0 /\ ~S.sessions[x].destroyed THEN SessionClose(S, x) ELSE S

\* The stale branch of request(): close the session of the unusable entry and
\* delete the entry.
EvictStale(S, key) ==
  [CloseSessionOf(S, MapGet(S.connectionCache, key))
     EXCEPT !.connectionCache = MapDelete(@, key)]

\* History: a call with reuse disabled, or one started while another call
\* for the same key is still waiting for its handshake, breaks the
\* precondition "reuse enabled, one call after the other".
Overlaps(S, t, key) ==
  \E u \in TaskIds : u # t /\ S.tasks[u].pc = "connecting"
                     /\ ConnectionKey(S.tasks[u].url) = key

\* A lookup that never finds an entry; C31 tells it from LooksUpCache.
LooksUpCacheNever(S, key, reuseSocket) == FALSE

\* A lookup that ignores the caller's reuseSocket; C25 tells it from
\* LooksUpCache.
LooksUpCacheAlways(S, key, reuseSocket) == MapHas(S.connectionCache, key)

\* `if (reuseSocket && this.connectionCache.has(connectionKey))`
LooksUpCache(S, key, reuseSocket) == reuseSocket /\ MapHas(S.connectionCache, key)

\* request(url, reuseSocket) up to its first await (or, on a cache hit, up to
\* the request being sent).
RequestStart(S, t, url, reuseSocket) ==
  LET key == ConnectionKey(url)
      S0 == [S EXCEPT !.tasks[t] = [FreshTask EXCEPT !.url = url,
                                                     !.reuseSocket = reuseSocket],
                      !.disturbed = IF ~reuseSocket \/ Overlaps(S, t, key)
                                    THEN @ \cup {key} ELSE @]
  IN  IF LooksUpCache(S, key, reuseSocket)
      THEN IF Unusable(S.sockets[S.connections[MapGet(S.connectionCache, key)].socket])
           THEN createTLSConnection(
                  EvictStale([S0 EXCEPT !.tasks[t].branch = "stale",
                                        !.tasks[t].connection =
                                           MapGet(S.connectionCache, key)], key), t, key)
           ELSE Dispatch([S0 EXCEPT !.tasks[t].branch = "hit"], t,
                         MapGet(S.connectionCache, key))
      ELSE createTLSConnection([S0 EXCEPT !.tasks[t].branch = "miss"], t, key)

\* A continuation that stores every new connection; C8 tells it from
\* StoresConnection.
StoresConnectionAlways(task) == TRUE

\* Whether the continuation after `await createTLSConnection` stores the new
\* connection: always on the stale branch, on the miss branch if reuseSocket.
StoresConnection(task) == task.branch = "stale" \/ task.reuseSocket

\* The 'secureConnect' of socket t: the handshake is done and the server has
\* made its ALPN selection.
SecureConnect(S, t, alpn) ==
  [S EXCEPT !.sockets[t] = [@ EXCEPT !.state = "connected", !.alpnProtocol = alpn,
                                     !.readable = TRUE, !.writable = TRUE]]

\* A continuation that hands the session of the entry it replaces to the new
\* connection object; C3 tells it from RequestResume.
RequestResumeKeepingSession(S, t) ==
  LET key == ConnectionKey(S.tasks[t].url)
      old == S.tasks[t].connection
      S1 == [S EXCEPT !.connections[t] =
               [socket |-> t,
                session |-> IF old # 0 THEN S.connections[old].session ELSE 0]]
      S2 == IF S.tasks[t].branch = "stale" \/ S.tasks[t].reuseSocket
            THEN [S1 EXCEPT !.connectionCache = MapSet(@, key, t)]
            ELSE S1
  IN  IF S2.sockets[t].alpnProtocol = "h2"
      THEN makeHttp2Request(S2, t, t)
      ELSE makeHttp1Request(S2, t, t)

\* request() after `await this.createTLSConnection(...)`: the connection
\* object is created, stored, and the request is dispatched on it.
RequestResume(S, t) ==
  LET key == ConnectionKey(S.tasks[t].url)
      S1 == [S EXCEPT !.connections[t] = [socket |-> t, session |-> 0]]
      S2 == IF StoresConnection(S.tasks[t])
            THEN [S1 EXCEPT !.connectionCache = MapSet(@, key, t)]
            ELSE S1
  IN  Dispatch(S2, t, t)

\* The client without the reuseSocket parameter:
\* `if (this.connectionCache.has(connectionKey))`
HasCached(S, key) == MapHas(S.connectionCache, key)

\* request(url) of the client without the reuseSocket parameter, up to its
\* first await (or, on a cache hit, up to the request being sent).
RequestStartReuseOnly(S, t, url) ==
  LET key == ConnectionKey(url)
      S0 == [S EXCEPT !.tasks[t] = [FreshTask EXCEPT !.url = url],
                      !.disturbed = IF Overlaps(S, t, key) THEN @ \cup {key} ELSE @]
  IN  IF HasCached(S, key)
      THEN IF Unusable(S.sockets[S.connections[MapGet(S.connectionCache, key)].socket])
           THEN createTLSConnection(
                  EvictStale([S0 EXCEPT !.tasks[t].branch = "stale",
                                        !.tasks[t].connection =
                                           MapGet(S.connectionCache, key)], key), t, key)
           ELSE Dispatch([S0 EXCEPT !.tasks[t].branch = "hit"], t,
                         MapGet(S.connectionCache, key))
      ELSE createTLSConnection([S0 EXCEPT !.tasks[t].branch = "miss"], t, key)

\* request(url) of the client without the reuseSocket parameter after
\* `await this.createTLSConnection(...)`: on both branches the connection
\* object is created and stored, and the request is dispatched on it.
RequestResumeReuseOnly(S, t) ==
  LET key == ConnectionKey(S.tasks[t].url)
      S1 == [S EXCEPT !.connections[t] = [socket |-> t, session |-> 0]]
      S2 == [S1 EXCEPT !.connectionCache = MapSet(@, key, t)]
  IN  Dispatch(S2, t, t)

\* A loop body that destroys the socket before it closes the session; C7
\* tells it from CloseEntry.
CloseEntrySocketFirst(S, c) ==
  LET s == S.connections[c].socket
      S1 == IF ~S.sockets[s].destroyed THEN SocketDestroy(S, s) ELSE S
  IN  CloseSessionOf(S1, c)

\* closeAll(): the loop body for one cached connection.
CloseEntry(S, c) ==
  LET S1 == CloseSessionOf(S, c)
      s == S.connections[c].socket
  IN  IF ~S1.sockets[s].destroyed THEN SocketDestroy(S1, s) ELSE S1

RECURSIVE CloseEach(_, _)
CloseEach(S, i) ==
  IF i > Len(S.connectionCache)
  THEN S
  ELSE CloseEach(CloseEntry(S, S.connectionCache[i].connection), i + 1)

\* A closeAll() that forgets connectionCache.clear(); C6 tells it from
\* closeAll.
closeAllWithoutClear(S) == CloseEach(S, 1)

\* closeAll()
closeAll(S) == [CloseEach(S, 1) EXCEPT !.connectionCache = <<>>]

\* `x || undefined` on socket.alpnProtocol
\* A result field that passes the socket's value on as it is; C27 tells it
\* from AlpnOrUndefined.
AlpnAsIs(alpnProtocol) == alpnProtocol

AlpnOrUndefined(alpnProtocol) ==
  IF alpnProtocol = "false" THEN "undefined" ELSE alpnProtocol

\* `res.httpVersion || '1.1'`
VersionOrDefault(v) == IF v = "" THEN "1.1" ELSE v

TaskSocket(S, t) == S.connections[S.tasks[t].connection].socket

\* The ClientResponse makeHttp1Request resolves with on 'end'.
Http1Result(S, t, version) ==
  [ httpVersion |-> VersionOrDefault(version),
    alpnProtocol |-> AlpnOrUndefined(S.sockets[TaskSocket(S, t)].alpnProtocol),
    request |-> t ]

\* The ClientResponse makeHttp2Request resolves with on 'end'.
Http2Result(S, t) ==
  [ httpVersion |-> "2.0",
    alpnProtocol |-> AlpnOrUndefined(S.sockets[TaskSocket(S, t)].alpnProtocol),
    request |-> t ]

----------------------------------------------------------------------------
\* The response headers of an HTTP/2 stream.

\* `{}`, an object literal without own properties.
EmptyObject == [k \in {} |-> ""]

\* obj[key] = value on an object literal.  "__proto__" is not an own property
\* there but the accessor inherited from Object.prototype; its setter ignores
\* a value that is neither an object nor null, and no own property is made.
PropertySet(obj, key, value) ==
  IF key = "__proto__"
  THEN obj
  ELSE [k \in DOMAIN obj \cup {key} |-> IF k = key THEN value ELSE obj[k]]

\* for (const [key, value] of Object.entries(responseHeaders))
\*   if (!key.startsWith(':')) headers[key] = value
RECURSIVE CopyHeaders(_, _, _)
CopyHeaders(headers, responseHeaders, entries) ==
  IF entries = {}
  THEN headers
  ELSE LET key == CHOOSE k \in entries : TRUE
       IN CopyHeaders(IF ~StartsWithColon(key)
                      THEN PropertySet(headers, key, responseHeaders[key])
                      ELSE headers,
                      responseHeaders, entries \ {key})

\* parseInt(responseHeaders[':status'] as string || '0')
StatusOf(responseHeaders) ==
  ParseInt(IF ":status" \in DOMAIN responseHeaders
           THEN responseHeaders[":status"]
           ELSE "0")

\* No request stream yet.
IdleStream ==
  [ pc |-> "idle", responseHeaders |-> EmptyObject, headers |-> EmptyObject,
    statusCode |-> 0, result |-> [statusCode |-> 0, headers |-> EmptyObject, httpVersion |-> ""] ]

----------------------------------------------------------------------------
\* The mock server with a custom ALPN callback.

\* The connections the mock server accepts.
ConnectionIds == 1..MaxConnections

\* What customALPNCallback may return: a protocol, or undefined.
Selections == {"h2", "http/1.1", "undefined"}

\* A TLSConnectionEvent.  connection is history: whose event it is; the code
\* does not record it.
ServerEvent(type, c) ==
  [ type |-> type, connection |-> c, clientProtocols |-> <<>>,
    selectedProtocol |-> "undefined", alpnProtocol |-> "undefined" ]

\* The ALPNCallback option: push a secureConnection event with the client's
\* protocols, call customALPNCallback, and write what it selected into the
\* last event of the list.
PushSecureConnection(log, c, protocols, selected) ==
  LET pushed == Append(log, [ServerEvent("secureConnection", c)
                               EXCEPT !.clientProtocols = protocols])
  IN  IF selected # "undefined"
      THEN [pushed EXCEPT ![Len(pushed)].selectedProtocol = selected]
      ELSE pushed

\* The 'secureConnection' listener with a custom callback configured: write
\* tlsSocket.alpnProtocol into the last event if that is a secureConnection
\* event.
UpdateLastEvent(log, alpnProtocol) ==
  IF Len(log) > 0 /\ log[Len(log)].type = "secureConnection"
  THEN [log EXCEPT ![Len(log)].alpnProtocol = alpnProtocol]
  ELSE log

----------------------------------------------------------------------------
\* multipleRequests

\* A call of this.request(url, reuseSocket) from multipleRequests.
Issue(S) ==
  LET t == NextTaskOf(S)
  IN  [RequestStart(S, t, S.batch.url, S.batch.reuseSocket)
         EXCEPT !.batch.issued = Append(@, t), !.batch.results = Append(@, NoResult)]

\* A loop that stops after its first this.request(); C28 tells it from
\* IssueMany.
IssueOne(S, n) == IF n = 0 THEN S ELSE Issue(S)

RECURSIVE IssueMany(_, _)
IssueMany(S, n) == IF n = 0 THEN S ELSE IssueMany(Issue(S), n - 1)

\* A multipleRequests that never finds HTTP/2; C10 tells it from IsHttp2.
IsHttp2Never(S, key) == FALSE

\* `connection && connection.socket.alpnProtocol === 'h2'`
IsHttp2(S, key) ==
  /\ MapHas(S.connectionCache, key)
  /\ S.sockets[S.connections[MapGet(S.connectionCache, key)].socket].alpnProtocol = "h2"

\* A multipleRequests that always takes the parallel branch; C9 tells it from
\* ReusePath.
ReusePathNever(count, reuseSocket) == FALSE

\* `if (reuseSocket && count > 0)`
ReusePath(count, reuseSocket) == reuseSocket /\ count > 0

\* multipleRequests throws: the awaited request() rejected.
BatchReject(S) == [S EXCEPT !.batch = [IdleBatch EXCEPT !.pc = "rejected"]]

\* The calls whose promises the Promise.all of multipleRequests waits for:
\* remainingRequests ("rest") or requests ("all").
Awaited(B) ==
  { B.issued[i] : i \in (IF B.pc = "rest" THEN 2 ELSE 1)..Len(B.issued) }

\* The continuation of multipleRequests once the promise it awaits has
\* settled; it runs until the next await that has to wait.
RECURSIVE BatchRun(_)
BatchRun(S) ==
  LET B == S.batch
      n == Len(B.issued)
  IN  CASE B.pc = "first" /\ Settled(S.tasks[B.issued[n]]) ->
             IF S.tasks[B.issued[n]].pc = "rejected"
             THEN BatchReject(S)
             ELSE IF IsHttp2(S, ConnectionKey(B.url))
                  THEN BatchRun(IssueMany([S EXCEPT !.batch.pc = "rest",
                                                    !.batch.isHttp2 = TRUE,
                                                    !.batch.responses = B.results],
                                          B.count - 1))
                  ELSE BatchRun([S EXCEPT !.batch.pc = "loop",
                                          !.batch.responses = B.results])
        [] B.pc = "loop" ->
             IF n < B.count
             THEN BatchRun(Issue([S EXCEPT !.batch.pc = "seq"]))
             ELSE [S EXCEPT !.batch.pc = "resolved"]
        [] B.pc = "seq" /\ Settled(S.tasks[B.issued[n]]) ->
             IF S.tasks[B.issued[n]].pc = "rejected"
             THEN BatchReject(S)
             ELSE BatchRun([S EXCEPT !.batch.pc = "loop",
                                     !.batch.responses = Append(@, B.results[n])])
        [] B.pc \in {"rest", "all"} /\ (\E t \in Awaited(B) : S.tasks[t].pc = "rejected") ->
             BatchReject(S)
        [] B.pc \in {"rest", "all"} /\ (\A t \in Awaited(B) : S.tasks[t].pc = "resolved") ->
             [S EXCEPT !.batch.pc = "resolved", !.batch.responses = B.results]
        [] OTHER -> S

\* multipleRequests(url, count, reuseSocket) up to its first await.
MultipleRequestsStart(S, url, count, reuseSocket) ==
  LET S0 == [S EXCEPT !.batch = [IdleBatch EXCEPT !.url = url, !.count = count,
                                                  !.reuseSocket = reuseSocket]]
  IN  IF ReusePath(count, reuseSocket)
      THEN BatchRun(Issue([S0 EXCEPT !.batch.pc = "first"]))
      ELSE BatchRun(IssueMany([S0 EXCEPT !.batch.pc = "all"], count))

----------------------------------------------------------------------------
Init ==
  /\ connectionCache = <<>>
  /\ sockets = [s \in TaskIds |-> FreshSocket]
  /\ connections = [c \in TaskIds |-> [socket |-> 0, session |-> 0]]
  /\ sessions = [x \in TaskIds |-> [socket |-> 0, closed |-> FALSE, destroyed |-> FALSE]]
  /\ tasks = [t \in TaskIds |-> FreshTask]
  /\ batch = IdleBatch
  /\ disturbed = {}
  /\ sessionErrors = [x \in TaskIds |-> "none"]
  /\ stream = IdleStream
  /\ events = <<>>
  /\ handshakes = [c \in ConnectionIds |-> [phase |-> "none", selected |-> "undefined"]]

\* The caller calls request(url, reuseSocket).
Request(url, reuseSocket) ==
  /\ Started < MaxTasks
  /\ FreeTasks > Reserved
  /\ Becomes(RequestStart(State, NextTaskOf(State), url, reuseSocket))

\* The caller calls multipleRequests(url, count, reuseSocket).
MultipleRequests(url, count, reuseSocket) ==
  /\ batch.pc = "idle"
  /\ count <= MaxCount /\ count <= FreeTasks
  /\ Becomes(MultipleRequestsStart(State, url, count, reuseSocket))

\* The caller calls closeAll().
CloseAll ==
  Becomes([closeAll(State) EXCEPT
             !.disturbed = @ \cup { connectionCache[i].key : i \in 1..Len(connectionCache) }])

\* The caller calls closeAll(), with the history of the calls that wait for
\* their handshake at that moment (closedAll).
CloseAllInterleaved ==
  Becomes([closeAll(State) EXCEPT
             !.disturbed = @ \cup { connectionCache[i].key : i \in 1..Len(connectionCache) },
             !.tasks = [t \in TaskIds |->
                          [@[t] EXCEPT !.closedAll = @ \/ tasks[t].pc = "connecting"]]])

\* tls.connect's callback: the handshake is done, the promise resolves and
\* request() continues.
ConnectResolved(t, alpn) ==
  /\ tasks[t].pc = "connecting"
  /\ Listening(sockets[t].key)
  /\ Becomes(BatchRun(RequestResume(SecureConnect(State, t, alpn), t)))

\* An 'error' handler that forgets to reject; C16 tells it from
\* ConnectRejected.
ConnectErrorSwallowed(t) ==
  /\ tasks[t].pc = "connecting"
  /\ Becomes([State EXCEPT !.sockets[t].state = "failed", !.sockets[t].destroyed = TRUE,
                           !.disturbed = @ \cup {TaskKey(t)}])

\* The socket's 'error' event before the handshake: the promise rejects, and
\* so does request().
ConnectRejected(t) ==
  /\ tasks[t].pc = "connecting"
  /\ Becomes(BatchRun(Reject(
       [State EXCEPT !.sockets[t].state = "failed", !.sockets[t].destroyed = TRUE,
                     !.disturbed = @ \cup {TaskKey(t)}], t)))

\* The 'error' event of a connect that cannot succeed.
ConnectFails(t) == ~Listening(TaskKey(t)) /\ ConnectRejected(t)

\* server.on('connection'): a client has opened a TCP connection.
OnConnection(c) ==
  /\ handshakes[c].phase = "none"
  /\ handshakes' = [handshakes EXCEPT ![c].phase = "tcp"]
  /\ events' = Append(events, ServerEvent("connection", c))
  /\ UNCHANGED <<clientVars, stream>>

\* The engine calls ALPNCallback with the ClientHello of connection c; the
\* handshake goes on with the selected protocol, or is refused when the
\* callback selects none.
ALPNCallback(c, selected) ==
  /\ handshakes[c].phase = "tcp"
  /\ handshakes' = [handshakes EXCEPT
       ![c] = [phase |-> IF selected = "undefined" THEN "refused" ELSE "hello",
               selected |-> selected]]
  /\ events' = PushSecureConnection(events, c, ALPNProtocols, selected)
  /\ UNCHANGED <<clientVars, stream>>

\* server.on('secureConnection'): the handshake of connection c is complete;
\* tlsSocket.alpnProtocol is the protocol selected for it.
OnSecureConnection(c) ==
  /\ handshakes[c].phase = "hello"
  /\ handshakes' = [handshakes EXCEPT ![c].phase = "secure"]
  /\ events' = UpdateLastEvent(events, handshakes[c].selected)
  /\ UNCHANGED <<clientVars, stream>>

\* server.on('tlsClientError'): the handshake of connection c has failed.
OnTlsClientError(c) ==
  /\ handshakes[c].phase = "refused"
  /\ handshakes' = [handshakes EXCEPT ![c].phase = "failed"]
  /\ events' = Append(events, ServerEvent("tlsClientError", c))
  /\ UNCHANGED <<clientVars, stream>>

\* handleRequest: a request has arrived on connection c.
handleRequest(c) ==
  /\ handshakes[c].phase = "secure"
  /\ handshakes' = [handshakes EXCEPT ![c].phase = "requested"]
  /\ events' = Append(events, [ServerEvent("request", c)
                                 EXCEPT !.alpnProtocol = handshakes[c].selected])
  /\ UNCHANGED <<clientVars, stream>>

\* session.request() has opened a stream; responseHeaders is the block the
\* peer will answer with.  `let headers = {}; let statusCode = 0`.
StreamOpened(responseHeaders) ==
  /\ stream.pc = "idle"
  /\ stream' = [IdleStream EXCEPT !.pc = "open", !.responseHeaders = responseHeaders]
  /\ UNCHANGED <<clientVars, serverVars>>

\* req.on('response', ...)
StreamResponse ==
  /\ stream.pc = "open"
  /\ stream' = [stream EXCEPT
       !.pc = "responded",
       !.statusCode = StatusOf(stream.responseHeaders),
       !.headers = CopyHeaders(stream.headers, stream.responseHeaders,
                               DOMAIN stream.responseHeaders)]
  /\ UNCHANGED <<clientVars, serverVars>>

\* req.on('end', ...): resolve({ statusCode, headers, body, httpVersion: '2.0', ... })
StreamEnd ==
  /\ stream.pc = "responded"
  /\ stream' = [stream EXCEPT
       !.pc = "ended",
       !.result = [statusCode |-> stream.statusCode, headers |-> stream.headers,
                   httpVersion |-> "2.0"]]
  /\ UNCHANGED <<clientVars, serverVars>>

\* An HTTP/1.x response has been read completely ('end').
Http1Response(t, version) ==
  /\ tasks[t].pc = "inflight" /\ tasks[t].path = "http1"
  /\ sockets[TaskSocket(State, t)].readable
  /\ Becomes(BatchRun(Resolve(State, t, Http1Result(State, t, version))))

\* An HTTP/2 stream has ended ('end') after its response headers and data.
Http2Response(t) ==
  /\ tasks[t].pc = "inflight" /\ tasks[t].path = "http2"
  /\ sockets[TaskSocket(State, t)].readable
  /\ ~sessions[tasks[t].session].destroyed
  /\ Becomes(BatchRun(Resolve(State, t, Http2Result(State, t))))

\* The request or the stream emits 'error'.
RequestError(t) ==
  /\ tasks[t].pc = "inflight"
  /\ Becomes(BatchRun(Reject(State, t)))

\* The socket under an HTTP/2 stream has been destroyed (by closeAll() or by
\* the peer closing the connection) and the engine cancels the stream: the
\* stream emits 'close' (and 'aborted') but neither 'error' nor 'end'.
\* makeHttp2Request listens to 'error', 'response', 'data' and 'end' only, so
\* no handler of the client runs: the call stays pending ("closed": its
\* stream is over) and no further event of the stream will come.  When the
\* engine has an error to report instead, that is RequestError.
StreamCancelled(t) ==
  /\ tasks[t].pc = "inflight" /\ tasks[t].path = "http2"
  /\ sockets[TaskSocket(State, t)].destroyed
  /\ Becomes([State EXCEPT !.tasks[t].pc = "closed"])

\* The sockets of the cached connections.  The client looks at the state of a
\* socket only in the liveness check of a cached entry, and a socket enters the
\* cache only in the step that follows its handshake; so what happens to a
\* socket outside the cache shows only as the outcome of the request in
\* flight on it (Http1Response, Http2Response, RequestError).
Referenced ==
  { connections[connectionCache[i].connection].socket : i \in 1..Len(connectionCache) }

\* The peer or the network acts on a connected socket: the peer ends its side
\* ("end": no longer readable), or the socket is closed ("close": destroyed,
\* and with it the HTTP/2 sessions that run on it).
SocketFault(s, kind) ==
  /\ s \in Referenced
  /\ sockets[s].state = "connected" /\ ~sockets[s].destroyed
  /\ kind = "end" => sockets[s].readable
  /\ Becomes([State EXCEPT
       !.sockets[s].readable = FALSE,
       !.sockets[s].writable = IF kind = "close" THEN FALSE ELSE @,
       !.sockets[s].destroyed = IF kind = "close" THEN TRUE ELSE @,
       !.sessions = [x \in TaskIds |->
                       IF kind = "close" /\ @[x].socket = s
                       THEN [@[x] EXCEPT !.closed = TRUE, !.destroyed = TRUE]
                       ELSE @[x]],
       !.disturbed = @ \cup {sockets[s].key}])

\* The session of a live socket receives GOAWAY (closed) or is destroyed by
\* the engine after a protocol error.
SessionFault(x, kind) ==
  /\ sessions[x].socket \in Referenced /\ ~sessions[x].destroyed
  /\ ~sockets[sessions[x].socket].destroyed
  /\ kind = "goaway" => ~sessions[x].closed
  /\ Becomes([State EXCEPT
       !.sessions[x].closed = TRUE,
       !.sessions[x].destroyed = IF kind = "destroy" THEN TRUE ELSE @,
       !.disturbed = @ \cup {sockets[sessions[x].socket].key}])

\* The engine has an error to report on a session: it queues the session's
\* 'error' event, and either goes on with the session ("emit") or destroys it
\* ("destroy").
SessionErrored(x, kind) ==
  /\ sessions[x].socket # 0 /\ ~sessions[x].destroyed
  /\ sessionErrors[x] = "none"
  /\ Becomes([State EXCEPT
       !.sessionErrors[x] = "pending",
       !.sessions[x].closed = IF kind = "destroy" THEN TRUE ELSE @,
       !.sessions[x].destroyed = IF kind = "destroy" THEN TRUE ELSE @,
       !.disturbed = IF kind = "destroy"
                     THEN @ \cup {sockets[sessions[x].socket].key} ELSE @])

\* The session's 'error' event is delivered to the handler makeHttp2Request
\* attached.
SessionError(x) ==
  /\ sessionErrors[x] = "pending"
  /\ Becomes(OnSessionError(State, x))

\* What the engines and the peer do, whoever made the calls.
Environment ==
  \/ \E t \in TaskIds, alpn \in AlpnResults : ConnectResolved(t, alpn)
  \/ \E t \in TaskIds : ConnectRejected(t)
  \/ \E t \in TaskIds, version \in ResponseVersions : Http1Response(t, version)
  \/ \E t \in TaskIds : Http2Response(t)
  \/ \E t \in TaskIds : RequestError(t)
  \/ \E s \in TaskIds, kind \in {"end", "close"} : SocketFault(s, kind)
  \/ \E x \in TaskIds, kind \in {"goaway", "destroy"} : SessionFault(x, kind)

\* A caller that makes request() calls.
Next ==
  \/ \E url \in OneKeyURLs, reuseSocket \in BOOLEAN : Request(url, reuseSocket)
  \/ CloseAll
  \/ Environment

Spec == Init /\ [][Next]_vars

\* A caller that makes one multipleRequests() call.
NextBatch ==
  \/ \E url \in OneKeyURLs, count \in 0..MaxCount, reuseSocket \in BOOLEAN :
       MultipleRequests(url, count, reuseSocket)
  \/ CloseAll
  \/ Environment

BatchSpec == Init /\ [][NextBatch]_vars

\* A caller that makes request() calls to two host:ports, with the events that
\* decide what is cached: handshakes, responses, socket faults, closeAll().
NextKeys ==
  \/ \E url \in TwoKeyURLs : Request(url, TRUE)
  \/ CloseAll
  \/ \E t \in TaskIds, alpn \in AlpnResults : ConnectResolved(t, alpn)
  \/ \E t \in TaskIds : ConnectRejected(t)
  \/ \E t \in TaskIds, version \in ResponseVersions : Http1Response(t, version)
  \/ \E t \in TaskIds : Http2Response(t)
  \/ \E s \in TaskIds, kind \in {"end", "close"} : SocketFault(s, kind)

KeySpec == Init /\ [][NextKeys]_vars

\* A caller that makes request() calls, some of them to a port without a
\* server.  The TLS engine reports a connect that cannot succeed with an
\* 'error' event sooner or later, hence the fairness.
NextDown ==
  \/ \E url \in OneKeyURLs \cup {DownURL}, reuseSocket \in BOOLEAN : Request(url, reuseSocket)
  \/ \E t \in TaskIds, alpn \in AlpnResults : ConnectResolved(t, alpn)
  \/ \E t \in TaskIds : ConnectRejected(t)
  \/ \E t \in TaskIds, version \in ResponseVersions : Http1Response(t, version)
  \/ \E t \in TaskIds : Http2Response(t)
  \/ \E t \in TaskIds : RequestError(t)

DownSpec ==
  Init /\ [][NextDown]_vars /\ \A t \in TaskIds : WF_vars(ConnectFails(t))

\* A caller that makes request() calls and closeAll(), with the transport
\* closing under requests in flight.
NextClosing ==
  \/ \E url \in OneKeyURLs, reuseSocket \in BOOLEAN : Request(url, reuseSocket)
  \/ CloseAll
  \/ \E t \in TaskIds, alpn \in AlpnResults : ConnectResolved(t, alpn)
  \/ \E t \in TaskIds, version \in ResponseVersions : Http1Response(t, version)
  \/ \E t \in TaskIds : Http2Response(t)
  \/ \E t \in TaskIds : RequestError(t)
  \/ \E s \in TaskIds, kind \in {"end", "close"} : SocketFault(s, kind)
  \/ \E t \in TaskIds : StreamCancelled(t)

ClosingSpec == Init /\ [][NextClosing]_vars

\* The caller calls request(url) with reuse enabled before it calls
\* multipleRequests.
RequestBeforeBatch(url) ==
  /\ batch.pc = "idle"
  /\ Request(url, TRUE)

\* A caller that makes request() calls with reuse enabled to URLs that differ
\* in hostname, port or path.
NextPorts ==
  \/ \E url \in PortURLs : Request(url, TRUE)
  \/ \E t \in TaskIds, alpn \in AlpnResults : ConnectResolved(t, alpn)
  \/ \E t \in TaskIds, version \in ResponseVersions : Http1Response(t, version)
  \/ \E t \in TaskIds : Http2Response(t)

PortSpec == Init /\ [][NextPorts]_vars

\* A caller that makes request() calls and then one multipleRequests() call
\* to the same host:port, so that the batch finds the cache as the earlier
\* calls left it; every request succeeds.
NextMixed ==
  \/ \E url \in OneKeyURLs : RequestBeforeBatch(url)
  \/ \E url \in OneKeyURLs, count \in 0..MaxCount, reuseSocket \in BOOLEAN :
       MultipleRequests(url, count, reuseSocket)
  \/ \E t \in TaskIds, alpn \in AlpnResults : ConnectResolved(t, alpn)
  \/ \E t \in TaskIds : Http1Response(t, "1.1")
  \/ \E t \in TaskIds : Http2Response(t)

MixedSpec == Init /\ [][NextMixed]_vars

\* A caller that makes request() calls with reuse enabled to one host:port
\* without waiting for the earlier ones; no socket breaks, no connect fails
\* and closeAll() is not called.  A call finds no usable cache entry here only
\* while no handshake has completed, that is as the first call or while the
\* earlier calls wait for theirs.
NextOverlap ==
  \/ \E url \in OneKeyURLs : Request(url, TRUE)
  \/ \E t \in TaskIds, alpn \in AlpnResults : ConnectResolved(t, alpn)
  \/ \E t \in TaskIds, version \in ResponseVersions : Http1Response(t, version)
  \/ \E t \in TaskIds : Http2Response(t)
  \/ \E t \in TaskIds : RequestError(t)

OverlapSpec == Init /\ [][NextOverlap]_vars

\* A caller that makes request() calls and calls closeAll() between them,
\* also while a call waits for its handshake.
NextInterleaved ==
  \/ \E url \in OneKeyURLs, reuseSocket \in BOOLEAN : Request(url, reuseSocket)
  \/ CloseAllInterleaved
  \/ \E t \in TaskIds, alpn \in AlpnResults : ConnectResolved(t, alpn)
  \/ \E t \in TaskIds : ConnectRejected(t)
  \/ \E t \in TaskIds, version \in ResponseVersions : Http1Response(t, version)
  \/ \E t \in TaskIds : Http2Response(t)
  \/ \E t \in TaskIds : RequestError(t)

InterleavedSpec == Init /\ [][NextInterleaved]_vars

\* A caller that makes request() calls while the engine reports errors on the
\* HTTP/2 sessions.
NextErrors ==
  \/ \E url \in OneKeyURLs, reuseSocket \in BOOLEAN : Request(url, reuseSocket)
  \/ \E t \in TaskIds, alpn \in AlpnResults : ConnectResolved(t, alpn)
  \/ \E t \in TaskIds, version \in ResponseVersions : Http1Response(t, version)
  \/ \E t \in TaskIds : Http2Response(t)
  \/ \E t \in TaskIds : RequestError(t)
  \/ \E x \in TaskIds, kind \in {"emit", "destroy"} : SessionErrored(x, kind)
  \/ \E x \in TaskIds : SessionError(x)

ErrorSpec == Init /\ [][NextErrors]_vars

\* The mock server with customALPNCallback configured, with clients that
\* connect, shake hands and send a request, their events in any order the
\* network allows.
NextServer ==
  \/ \E c \in ConnectionIds : OnConnection(c)
  \/ \E c \in ConnectionIds, selected \in Selections : ALPNCallback(c, selected)
  \/ \E c \in ConnectionIds : OnSecureConnection(c)
  \/ \E c \in ConnectionIds : OnTlsClientError(c)
  \/ \E c \in ConnectionIds : handleRequest(c)

ServerSpec == Init /\ [][NextServer]_vars

\* One HTTP/2 request stream, from session.request() to the resolved result,
\* for every response header block.
NextHeaders ==
  \/ \E responseHeaders \in HeaderBlocks : StreamOpened(responseHeaders)
  \/ StreamResponse
  \/ StreamEnd

HeaderSpec == Init /\ [][NextHeaders]_vars

----------------------------------------------------------------------------
\* Properties.  Spec is the caller that makes request() calls, BatchSpec the
\* caller that makes one multipleRequests() call.

\* The calls for key k that are past the connect (or needed none).
Dispatched(k) ==
  { t \in TaskIds : tasks[t].pc \in {"inflight", "resolved", "rejected"} /\ TaskKey(t) = k }

\* The sockets ever opened towards key k.
Transports(k) == { s \in TaskIds : sockets[s].key = k }

\* The negotiated protocol of the socket that the request of task t is on.
NegotiatedOf(t) == sockets[TaskSocket(State, t)].alpnProtocol

\* The position of the first e in seq, 0 if there is none.
Position(seq, e) ==
  IF \E i \in 1..Len(seq) : seq[i] = e
  THEN CHOOSE i \in 1..Len(seq) : seq[i] = e /\ \A j \in 1..(i-1) : seq[j] # e
  ELSE 0

\* The values multipleRequests has received so far.
Received == { i \in 1..Len(batch.results) : batch.results[i].request # 0 }

\* C1: for a host:port whose calls all have reuse enabled and start one after
\* the other's handshake, whose cached transport stays usable, whose connect
\* does not fail and for which closeAll() is not called (the key is not in
\* disturbed), one socket at most is ever opened; as soon as a call has been
\* dispatched exactly one TLS handshake has been made, whatever protocol was
\* negotiated, the key is cached, and getCachedSocketCount() is 1.
C1_SingleHandshake ==
  \A k \in Keys : k \notin disturbed =>
    /\ Handshakes(k) <= 1
    /\ Cardinality(Transports(k)) <= 1
    /\ Dispatched(k) # {} =>
         /\ Handshakes(k) = 1
         /\ MapHas(connectionCache, k)
         /\ MapGet(connectionCache, k) \in Transports(k)
         /\ (\A t \in TaskIds : tasks[t].pc # "idle" => TaskKey(t) = k)
              => getCachedSocketCount = 1

\* Two calls have resolved over the one handshake.
C1_Witness ==
  \E k \in Keys :
    /\ k \notin disturbed
    /\ Handshakes(k) = 1
    /\ Cardinality({ t \in TaskIds : tasks[t].pc = "resolved" /\ TaskKey(t) = k }) >= 2
    /\ getCachedSocketCount = 1

C3_NoProtocolMismatch ==
  /\ \A t \in TaskIds : tasks[t].pc = "inflight" =>
       /\ tasks[t].path = "http2" <=> NegotiatedOf(t) = "h2"
       /\ tasks[t].path = "http1" <=> NegotiatedOf(t) # "h2"
       /\ tasks[t].path = "http2" =>
            sessions[tasks[t].session].socket = TaskSocket(State, t)
       /\ tasks[t].path = "http1" => tasks[t].session = 0
  /\ \A c \in TaskIds :
       /\ connections[c].socket # 0 => connections[c].socket = c
       /\ connections[c].session # 0 =>
            sessions[connections[c].session].socket = connections[c].socket

\* A request is in flight on a socket that replaced a stale one on which the
\* other protocol had been negotiated.
C3_Witness ==
  \E t \in TaskIds, s \in TaskIds :
    /\ tasks[t].pc = "inflight" /\ tasks[t].branch = "stale"
    /\ s # TaskSocket(State, t)
    /\ sockets[s].key = TaskKey(t) /\ sockets[s].state = "connected"
    /\ (sockets[s].alpnProtocol = "h2") # (NegotiatedOf(t) = "h2")

\* C4 as stated: while a call waits for the transport that replaces a stale
\* entry, the stale entry is out of the cache, its session (if any) is closed
\* and its transport is destroyed.
C4_EvictedTransportDestroyed ==
  \A t \in TaskIds : tasks[t].pc = "connecting" /\ tasks[t].branch = "stale" =>
    LET c == tasks[t].connection
    IN  /\ \A i \in 1..Len(connectionCache) : connectionCache[i].connection # c
        /\ connections[c].session # 0 => sessions[connections[c].session].closed
        /\ sockets[connections[c].socket].destroyed

\* C5 as stated: the rejection of a call whose connect failed leaves the
\* cache as the call found it: the step changes nothing in it, and the entry
\* that the call found stale is still there.
C5_FailedConnectKeepsCache ==
  [][ \A t \in TaskIds : tasks[t].pc = "connecting" /\ tasks'[t].pc = "rejected" =>
        /\ connectionCache' = connectionCache
        /\ tasks[t].branch = "stale" =>
             /\ MapHas(connectionCache', TaskKey(t))
             /\ MapGet(connectionCache', TaskKey(t)) = tasks[t].connection ]_vars

\* C6: closeAll() leaves getCachedSocketCount() at 0 in every state, and a
\* request() with reuse enabled that follows it (wherever the caller has a
\* call left to make) opens a socket of its own,
\* makes one more handshake, uses no earlier socket or session, and leaves
\* exactly its own connection in the cache.
C6_CloseAllThenRequest ==
  LET S1 == closeAll(State)
      t == NextTaskOf(S1)
  IN  /\ Len(S1.connectionCache) = 0
      /\ Started < MaxTasks =>
           \A url \in URLs, alpn \in AlpnResults :
             LET k == ConnectionKey(url)
                 S2 == RequestStart(S1, t, url, TRUE)
                 S3 == RequestResume(SecureConnect(S2, t, alpn), t)
             IN  /\ S2.tasks[t].pc = "connecting" /\ S2.tasks[t].branch = "miss"
                 /\ S1.sockets[t].state = "none" /\ S2.sockets[t].state = "connecting"
                 /\ Len(S2.connectionCache) = 0
                 /\ HandshakesIn(S3, k) = HandshakesIn(S1, k) + 1
                 /\ Len(S3.connectionCache) = 1
                 /\ MapGet(S3.connectionCache, k) = t
                 /\ S3.tasks[t].pc = "inflight" /\ S3.tasks[t].connection = t
                 /\ S3.connections[t].socket = t
                 /\ S3.tasks[t].session = (IF alpn = "h2" THEN t ELSE 0)

\* After closeAll() closed a session and destroyed its socket, a later call
\* is in flight on a socket of its own, the only cached one.
C6_Witness ==
  \E s \in TaskIds, t \in TaskIds :
    /\ s # t
    /\ sockets[s].destroyed /\ sessions[s].socket = s
    /\ sessions[s].closed /\ ~sessions[s].destroyed
    /\ tasks[t].pc = "inflight" /\ tasks[t].reuseSocket /\ tasks[t].branch = "miss"
    /\ TaskSocket(State, t) = t
    /\ connectionCache = <<[key |-> TaskKey(t), connection |-> t]>>

\* C7: closeAll() calls session.close() for exactly the cached sessions that
\* are not destroyed and socket.destroy() for exactly the cached sockets that
\* are not destroyed, the session before the socket of the same entry, touches
\* nothing else and empties the cache; a second closeAll() makes no call and
\* changes nothing, and on an empty cache closeAll() changes nothing.
C7_CloseAllOrderIdempotent ==
  LET R == closeAll(State)
      Quiet(S) == [S EXCEPT !.teardown = <<>>]
      cached == { connectionCache[i].connection : i \in 1..Len(connectionCache) }
      closes(c) == /\ connections[c].session # 0
                   /\ ~sessions[connections[c].session].destroyed
      destroys(c) == ~sockets[connections[c].socket].destroyed
      closeAt(c) == Position(R.teardown, [op |-> "session.close", id |-> connections[c].session])
      destroyAt(c) == Position(R.teardown, [op |-> "socket.destroy", id |-> connections[c].socket])
  IN  /\ R.connectionCache = <<>>
      /\ \A c \in cached :
           /\ closes(c) <=> closeAt(c) # 0
           /\ destroys(c) <=> destroyAt(c) # 0
           /\ closes(c) /\ destroys(c) => closeAt(c) < destroyAt(c)
           /\ R.sockets[connections[c].socket].destroyed
           /\ connections[c].session # 0 => R.sessions[connections[c].session].closed
      /\ Len(R.teardown) = Cardinality({ c \in cached : closes(c) })
                             + Cardinality({ c \in cached : destroys(c) })
      /\ \A s \in TaskIds : (\A c \in cached : connections[c].socket # s)
                              => R.sockets[s] = sockets[s]
      /\ \A x \in TaskIds : (\A c \in cached : connections[c].session # x)
                              => R.sessions[x] = sessions[x]
      /\ R.tasks = tasks /\ R.connections = connections /\ R.batch = batch
      /\ closeAll(Quiet(R)) = Quiet(R)
      /\ connectionCache = <<>> => R = State

\* closeAll() has closed a session and destroyed its socket, and the cache is
\* empty.
C7_Witness ==
  /\ connectionCache = <<>>
  /\ \E s \in TaskIds :
       /\ sockets[s].destroyed /\ sessions[s].socket = s
       /\ sessions[s].closed /\ ~sessions[s].destroyed

\* C8: a request() with reuse disabled takes neither the hit nor the stale
\* branch, opens a socket of its own (one more handshake) and leaves the
\* cache as it is, before and after its handshake; while only such calls
\* have been made the cache is empty and every dispatched call has made a
\* handshake of its own.
C8_NoReuseNeverCached ==
  /\ \A t \in TaskIds : tasks[t].pc \in {"connecting", "inflight"} /\ ~tasks[t].reuseSocket =>
       /\ tasks[t].branch = "miss"
       /\ sockets[t].state = (IF tasks[t].pc = "inflight" THEN "connected" ELSE "connecting")
       /\ tasks[t].pc = "inflight" => TaskSocket(State, t) = t
       /\ \A i \in 1..Len(connectionCache) : connectionCache[i].connection # t
  /\ Started < MaxTasks =>
       \A url \in URLs, alpn \in AlpnResults :
         LET t == NextTaskOf(State)
             k == ConnectionKey(url)
             S2 == RequestStart(State, t, url, FALSE)
             S3 == RequestResume(SecureConnect(S2, t, alpn), t)
         IN  /\ sockets[t].state = "none" /\ S2.sockets[t].state = "connecting"
             /\ S2.connectionCache = connectionCache
             /\ S3.connectionCache = connectionCache
             /\ HandshakesIn(S3, k) = Handshakes(k) + 1
             /\ S3.tasks[t].pc = "inflight" /\ S3.connections[S3.tasks[t].connection].socket = t
  /\ (\A t \in TaskIds : tasks[t].pc # "idle" =>
         ~tasks[t].reuseSocket /\ ~Settled(tasks[t]))
       => /\ getCachedSocketCount = 0
          /\ \A k \in Keys : Handshakes(k) = Cardinality(Dispatched(k))

\* Two calls with reuse disabled are in flight, each after a handshake of its
\* own, and nothing is cached.
C8_Witness ==
  \E t \in TaskIds, u \in TaskIds :
    /\ t # u /\ TaskKey(t) = TaskKey(u)
    /\ tasks[t].pc = "inflight" /\ ~tasks[t].reuseSocket
    /\ tasks[u].pc = "inflight" /\ ~tasks[u].reuseSocket
    /\ Handshakes(TaskKey(t)) = 2
    /\ getCachedSocketCount = 0

\* The calls multipleRequests has made that have not settled.
Unsettled == { i \in 1..Len(batch.issued) : ~Settled(tasks[batch.issued[i]]) }

\* multipleRequests(url, count, true) with count > 0 that did not find an h2
\* transport in the cache after its first request.
Sequential ==
  /\ batch.pc \in {"first", "seq", "rest", "all", "resolved"}
  /\ batch.reuseSocket /\ batch.count > 0 /\ ~batch.isHttp2

\* C9: multipleRequests with reuse enabled takes the concurrent branch only
\* after a first response over h2; otherwise it has one request at most
\* unsettled at any time, every earlier one having resolved, and it resolves
\* with count responses in the order of issue; unless the transport broke or
\* closeAll() was called, all of it over one handshake.
C9_SerializedHttp1Batch ==
  /\ batch.isHttp2 => batch.results[1].alpnProtocol = "h2"
  /\ Sequential =>
       /\ Cardinality(Unsettled) <= 1
       /\ \A i \in 1..(Len(batch.issued) - 1) : tasks[batch.issued[i]].pc = "resolved"
       /\ \A i \in 1..(Len(batch.issued) - 1) : batch.issued[i] < batch.issued[i + 1]
       /\ Len(batch.responses) >= Len(batch.issued) - 1
       /\ batch.pc = "resolved" =>
            /\ Len(batch.issued) = batch.count
            /\ Len(batch.responses) = batch.count
            /\ \A i \in 1..batch.count :
                 /\ batch.responses[i].request = batch.issued[i]
                 /\ batch.responses[i].httpVersion \in {"2.0"} \cup ResponseVersions
            /\ ConnectionKey(batch.url) \notin disturbed =>
                 /\ Handshakes(ConnectionKey(batch.url)) = 1
                 /\ \A i \in 1..batch.count :
                      batch.responses[i].alpnProtocol = batch.responses[1].alpnProtocol

\* A batch of three or more requests over one HTTP/1.1 transport has resolved.
C9_Witness ==
  /\ Sequential /\ batch.pc = "resolved" /\ batch.count >= 3
  /\ ConnectionKey(batch.url) \notin disturbed
  /\ Handshakes(ConnectionKey(batch.url)) = 1
  /\ batch.responses[1].alpnProtocol = "http/1.1"

\* C10: after a first response over h2, multipleRequests with reuse enabled
\* (the transport not broken, closeAll() not called) has made all its
\* remaining calls at once: each is a cache hit and a stream on the one
\* session of the one socket, without a further handshake or session, and the
\* batch resolves with each call's own HTTP/2 response.
C10_ConcurrentHttp2Batch ==
  LET k == ConnectionKey(batch.url)
      first == batch.issued[1]
  IN  ( /\ batch.pc \in {"seq", "rest", "all", "resolved"}
        /\ batch.reuseSocket /\ batch.count > 0
        /\ batch.results[1].alpnProtocol = "h2"
        /\ k \notin disturbed ) =>
        /\ batch.isHttp2
        /\ Len(batch.issued) = batch.count
        /\ Handshakes(k) = 1 /\ Cardinality(Transports(k)) = 1
        /\ Cardinality({ x \in TaskIds : sessions[x].socket # 0 }) = 1
        /\ \A i \in 2..Len(batch.issued) :
             LET t == batch.issued[i]
             IN  /\ tasks[t].pc \in {"inflight", "resolved"}
                 /\ tasks[t].pc = "inflight" =>
                      /\ tasks[t].branch = "hit" /\ tasks[t].path = "http2"
                      /\ TaskSocket(State, t) = first /\ tasks[t].session = first
        /\ batch.pc = "resolved" =>
             /\ Len(batch.responses) = batch.count
             /\ \A i \in 1..batch.count :
                  /\ batch.responses[i].request = batch.issued[i]
                  /\ batch.responses[i].httpVersion = "2.0"
                  /\ batch.responses[i].alpnProtocol = "h2"

\* Three or more streams are in flight on the one session, none answered.
C10_Witness ==
  /\ batch.pc = "rest" /\ batch.count >= 4
  /\ ConnectionKey(batch.url) \notin disturbed
  /\ \A i \in 2..batch.count :
       /\ tasks[batch.issued[i]].pc = "inflight"
       /\ tasks[batch.issued[i]].session = batch.issued[1]

\* The keys of the cached entries.
CachedKeys == { connectionCache[i].key : i \in 1..Len(connectionCache) }

\* C11: no two cache entries have the same host:port key, so that
\* getCachedSocketCount() is the number of distinct keys cached; every cached
\* key is the host:port of a call that was made, and a new client has none.
C11_OneEntryPerKey ==
  /\ \A i \in 1..Len(connectionCache), j \in 1..Len(connectionCache) :
       connectionCache[i].key = connectionCache[j].key => i = j
  /\ getCachedSocketCount = Cardinality(CachedKeys)
  /\ CachedKeys \subseteq { TaskKey(t) : t \in { u \in TaskIds : tasks[u].pc # "idle" } }
  /\ Started = 0 => getCachedSocketCount = 0

\* Two host:ports are cached, each after a handshake of its own.
C11_Witness ==
  /\ getCachedSocketCount = 2
  /\ \A k \in Keys : MapHas(connectionCache, k) /\ Handshakes(k) = 1

\* C12 as stated: for a cached connection on a usable socket the HTTP/2 path
\* creates a session when the connection's session is closed, as it does
\* when that session is destroyed or missing.
C12_SessionCreatedWhenClosed ==
  \A i \in 1..Len(connectionCache) :
    LET c == connectionCache[i].connection
    IN  /\ ~Unusable(sockets[connections[c].socket])
        /\ connections[c].session # 0
        /\ sessions[connections[c].session].closed
        => NeedsNewSession(State, c)

\* The sessions the client has created.
Created == { x \in TaskIds : sessions[x].socket # 0 }

\* C13: every session whose socket is destroyed is closed or destroyed; a
\* session runs on the socket of the connection object that holds it, every
\* stream in flight is on the socket its session was created on, and of the
\* sessions created on one socket all but the latest are destroyed.
C13_SessionNotOutlivingTransport ==
  /\ \A x \in Created :
       sockets[sessions[x].socket].destroyed => sessions[x].closed \/ sessions[x].destroyed
  /\ \A x \in Created :
       /\ sockets[sessions[x].socket].state = "connected"
       /\ \E c \in TaskIds : connections[c].socket = sessions[x].socket
       /\ \A c \in TaskIds :
            connections[c].session = x => connections[c].socket = sessions[x].socket
  /\ \A x \in Created, y \in Created :
       x < y /\ sessions[x].socket = sessions[y].socket => sessions[x].destroyed
  /\ \A t \in TaskIds : tasks[t].pc = "inflight" /\ tasks[t].path = "http2" =>
       /\ tasks[t].session \in Created
       /\ sessions[tasks[t].session].socket = TaskSocket(State, t)

\* A socket with a session was closed by the peer while its session was
\* open, and closeAll() has destroyed another socket after closing its
\* session.
C13_Witness ==
  \E x \in Created, y \in Created :
    /\ sockets[sessions[x].socket].destroyed /\ sessions[x].destroyed
    /\ sockets[sessions[y].socket].destroyed /\ sessions[y].closed /\ ~sessions[y].destroyed

\* C14: the step in which a request in flight resolves or rejects changes no
\* socket, no session, no connection object and no cache entry, so the
\* transport is as usable after it as before; the step in which a call is
\* dispatched on a cached connection changes no socket, no existing session
\* and no cache entry; the dispatch that follows a handshake changes no other
\* socket and no existing session.
C14_RequestPathsBorrow ==
  [][ \A t \in TaskIds :
        /\ tasks[t].pc = "inflight" /\ Settled(tasks'[t]) =>
             /\ connectionCache' = connectionCache
             /\ sockets' = sockets /\ sessions' = sessions
             /\ connections' = connections
        /\ tasks[t].pc = "idle" /\ tasks'[t].pc \in {"inflight", "rejected"} =>
             /\ connectionCache' = connectionCache
             /\ sockets' = sockets
             /\ \A x \in Created : sessions'[x] = sessions[x]
             /\ \A c \in TaskIds : connections'[c].socket = connections[c].socket
        /\ tasks[t].pc = "connecting" /\ tasks'[t].pc = "inflight" =>
             /\ \A s \in TaskIds \ {t} : sockets'[s] = sockets[s]
             /\ \A x \in Created : sessions'[x] = sessions[x]
             /\ ~sockets'[t].destroyed
    ]_vars

\* One request has resolved and another has failed on the cached transport,
\* which is still the cached one and usable.
C14_Witness ==
  \E t \in TaskIds, u \in TaskIds, k \in Keys :
    /\ tasks[t].pc = "resolved" /\ tasks[u].pc = "rejected"
    /\ k \notin disturbed /\ Handshakes(k) = 1
    /\ MapHas(connectionCache, k)
    /\ ~Unusable(sockets[connections[MapGet(connectionCache, k)].socket])

\* The socket has completed its handshake: the protocol is negotiated.
Negotiated(s) ==
  sockets[s].state = "connected" /\ sockets[s].alpnProtocol \in AlpnResults

\* C15: every socket in a connection object, cached or not, every socket a
\* request is in flight on and every socket a session runs on has completed
\* its handshake; a socket that is still connecting is in no connection
\* object, and its protocol is not yet known.
C15_HandshakeBeforeRequest ==
  /\ \A i \in 1..Len(connectionCache) :
       Negotiated(connections[connectionCache[i].connection].socket)
  /\ \A c \in TaskIds : connections[c].socket # 0 => Negotiated(connections[c].socket)
  /\ \A t \in TaskIds : tasks[t].pc = "inflight" => Negotiated(TaskSocket(State, t))
  /\ \A x \in Created : Negotiated(sessions[x].socket)
  /\ \A s \in TaskIds : sockets[s].state = "connecting" =>
       /\ sockets[s].alpnProtocol = "null"
       /\ tasks[s].pc = "connecting" /\ tasks[s].path = "none"
       /\ \A c \in TaskIds : connections[c].socket # s

\* One call waits for its handshake while another is in flight on the cached
\* socket of the same host:port.
C15_Witness ==
  \E t \in TaskIds, u \in TaskIds :
    /\ tasks[t].pc = "connecting" /\ sockets[t].state = "connecting"
    /\ tasks[u].pc = "inflight" /\ TaskKey(u) = TaskKey(t)
    /\ connectionCache = <<[key |-> TaskKey(u), connection |-> tasks[u].connection]>>

\* The calls to a host:port without a server.
Unreachable == { t \in TaskIds : tasks[t].pc # "idle" /\ ~Listening(TaskKey(t)) }

\* C16: a call to a host:port where no connection can be established is never
\* dispatched and never resolves, nothing is cached for it, and once it waits
\* for the connect it is rejected in the end.
C16_UnreachableRejects ==
  /\ [](\A t \in Unreachable :
          /\ tasks[t].pc \in {"connecting", "rejected"}
          /\ sockets[t].state \in {"connecting", "failed"}
          /\ ~MapHas(connectionCache, TaskKey(t)))
  /\ \A t \in TaskIds :
       (t \in Unreachable /\ tasks[t].pc = "connecting") ~> (tasks[t].pc = "rejected")

\* A call to the port without a server has been rejected after its connect
\* failed.
C16_Witness ==
  \E t \in Unreachable : tasks[t].pc = "rejected" /\ sockets[t].state = "failed"

\* C17 as stated: a request whose transport was closed while it was in
\* flight is rejected: no call is left pending once its stream is over.
C17_ClosedTransportRejects ==
  \A t \in TaskIds : tasks[t].pc # "closed"

\* C18: every socket the client has opened was opened with the ALPN offer
\* "h2", "http/1.1" in this order, whatever earlier sockets to the same
\* host:port negotiated, and with the hostname of the URL of its call as the
\* SNI server name.
C18_FullAlpnOfferAndSni ==
  \A s \in TaskIds : sockets[s].state # "none" =>
    /\ sockets[s].ALPNProtocols = <<"h2", "http/1.1">>
    /\ sockets[s].servername = tasks[s].url.hostname
    /\ sockets[s].servername # ""

\* A second socket to example.test has been opened with the full offer and
\* that host's name after the first had negotiated http/1.1.
C18_Witness ==
  \E s \in TaskIds, r \in TaskIds :
    /\ s # r /\ sockets[s].key = sockets[r].key
    /\ sockets[s].state = "connected" /\ sockets[s].alpnProtocol = "http/1.1"
    /\ sockets[r].state # "none" /\ sockets[r].ALPNProtocols = ALPNProtocols
    /\ sockets[r].servername = "example.test"
\* C19: on the HTTP/2 path the headers of the result are the received headers
\* whose name does not start with ':', each with its value, and none whose
\* name starts with ':'; statusCode is the number in ':status', 0 without it.
C19_Http2HeadersAndStatus ==
  stream.pc = "ended" =>
    /\ DOMAIN stream.result.headers =
         { k \in DOMAIN stream.responseHeaders : ~StartsWithColon(k) }
    /\ \A k \in DOMAIN stream.result.headers :
         stream.result.headers[k] = stream.responseHeaders[k]
    /\ stream.result.statusCode =
         (IF ":status" \in DOMAIN stream.responseHeaders
          THEN IF stream.responseHeaders[":status"] = "200" THEN 200 ELSE 404
          ELSE 0)

\* C20: the step that handles a session's 'error' event only logs it: the
\* sockets, the sessions, the cache with its connections, and the requests
\* (pending or settled) are the same after the step as before.
C20_SessionErrorOnlyLogged ==
  [][ \A x \in TaskIds :
        (sessionErrors[x] = "pending" /\ sessionErrors'[x] = "logged") =>
          /\ sockets' = sockets
          /\ sessions' = sessions
          /\ connectionCache' = connectionCache
          /\ connections' = connections
          /\ tasks' = tasks
          /\ batch' = batch ]_vars

\* An error of a session was logged while a request was pending on it, and
\* the request is still pending, on the session still open, on the socket
\* still usable, of the connection still cached.
C20_Witness ==
  \E x \in TaskIds, t \in TaskIds :
    /\ sessionErrors[x] = "logged"
    /\ tasks[t].session = x /\ tasks[t].pc = "inflight"
    /\ ~sessions[x].closed /\ ~sessions[x].destroyed
    /\ ~Unusable(sockets[sessions[x].socket])
    /\ \E i \in 1..Len(connectionCache) :
         connections[connectionCache[i].connection].session = x

\* C21 as stated: of calls with reuse enabled to one host:port that start
\* while the cache has no usable entry for it (OverlapSpec: while the
\* handshake of an earlier call is awaited), one handshake at most is made,
\* and the requests in flight are all on the same transport.
C21_SingleHandshakeUnderOverlap ==
  \A k \in Keys :
    /\ Handshakes(k) <= 1
    /\ \A t \in TaskIds, u \in TaskIds :
         /\ tasks[t].pc = "inflight" /\ tasks[u].pc = "inflight"
         /\ TaskKey(t) = k /\ TaskKey(u) = k
         => TaskSocket(State, t) = TaskSocket(State, u)

\* C22 as stated: every socket opened by a call with reuse enabled whose
\* handshake has completed is the socket of the cache entry of its host:port,
\* or is destroyed.
C22_CacheOwnsEveryTransport ==
  \A s \in TaskIds :
    sockets[s].state = "connected" /\ tasks[s].reuseSocket =>
      \/ sockets[s].destroyed
      \/ /\ MapHas(connectionCache, sockets[s].key)
         /\ connections[MapGet(connectionCache, sockets[s].key)].socket = s

\* C23 as stated: when closeAll() ran while a call with reuse enabled waited
\* for its handshake, then at the step in which that call settles no cache
\* entry holds the socket of that call open, and the cache is empty if no
\* other call was made.
C23_CloseAllDuringHandshake ==
  [][ \A t \in TaskIds :
        /\ tasks[t].closedAll /\ tasks[t].reuseSocket
        /\ ~Settled(tasks[t]) /\ Settled(tasks'[t])
        => /\ \A i \in 1..Len(connectionCache') :
                connections'[connectionCache'[i].connection].socket = t
                  => sockets'[t].destroyed
           /\ (\A u \in TaskIds \ {t} : tasks'[u].pc = "idle") => connectionCache' = <<>>
    ]_vars

\* C24: a connection object has a session only if its socket negotiated
\* "h2", and every session the client created runs on a socket that
\* negotiated "h2"; a request on a socket that negotiated http/1.1 or nothing
\* uses no session.
C24_SessionOnlyOnH2 ==
  /\ \A c \in TaskIds : connections[c].session # 0 =>
       sockets[connections[c].socket].alpnProtocol = "h2"
  /\ \A x \in Created : sockets[sessions[x].socket].alpnProtocol = "h2"
  /\ \A t \in TaskIds : tasks[t].pc = "inflight" /\ NegotiatedOf(t) # "h2" =>
       tasks[t].session = 0 /\ connections[tasks[t].connection].session = 0

\* A request is in flight, without a session, on a socket that negotiated
\* http/1.1 and replaced a socket of the same host:port that negotiated h2 and
\* carries a session.
C24_Witness ==
  \E t \in TaskIds, x \in Created :
    /\ tasks[t].pc = "inflight" /\ tasks[t].reuseSocket
    /\ NegotiatedOf(t) = "http/1.1"
    /\ connections[tasks[t].connection].session = 0
    /\ sessions[x].socket # TaskSocket(State, t)
    /\ sockets[sessions[x].socket].key = TaskKey(t)

\* The cached connection of key k is live: its socket passes the check of
\* request().
Live(S, k) ==
  /\ MapHas(S.connectionCache, k)
  /\ ~Unusable(S.sockets[S.connections[MapGet(S.connectionCache, k)].socket])

\* C25: where a live entry is cached for a host:port, a request() to it with
\* reuse disabled takes the miss branch onto a socket of its own and, before
\* and after its handshake, leaves the cache, every other socket, every
\* session and every other connection object as they are; it is sent on its
\* own connection, not the cached one, and a request() with reuse enabled
\* that follows finds the same cached connection live, opens no socket and,
\* unless session.request() throws at once, is sent on that connection.  A
\* call in progress with reuse disabled is on no cached connection.
C25_NoReuseBypassesCache ==
  /\ \A t \in TaskIds : tasks[t].pc = "inflight" /\ ~tasks[t].reuseSocket =>
       /\ tasks[t].branch = "miss" /\ tasks[t].connection = t
       /\ \A i \in 1..Len(connectionCache) : connectionCache[i].connection # t
  /\ \A url \in OneKeyURLs, alpn \in AlpnResults :
       LET k == ConnectionKey(url)
           t == NextTaskOf(State)
           c == MapGet(connectionCache, k)
           S2 == RequestStart(State, t, url, FALSE)
           S3 == RequestResume(SecureConnect(S2, t, alpn), t)
           u == NextTaskOf(S3)
           S4 == RequestStart(S3, u, url, TRUE)
       IN  Live(State, k) /\ Started < MaxTasks =>
             /\ S2.tasks[t].branch = "miss" /\ S2.tasks[t].pc = "connecting"
             /\ S2.connectionCache = connectionCache
             /\ S3.connectionCache = connectionCache
             /\ \A s \in TaskIds \ {t} : S3.sockets[s] = sockets[s]
             /\ \A x \in TaskIds \ {t} : S3.sessions[x] = sessions[x]
             /\ \A d \in TaskIds \ {t} : S3.connections[d] = connections[d]
             /\ S3.tasks[t].connection = t /\ t # c
             /\ S3.connections[t].socket = t
             /\ S3.connections[t].socket # connections[c].socket
             /\ Live(S3, k) /\ MapGet(S3.connectionCache, k) = c
             /\ ~Settled(S4.tasks[u]) =>
                  S4.tasks[u].branch = "hit" /\ S4.tasks[u].connection = c
             /\ S4.sockets[u].state = "none"
             /\ S4.connectionCache = connectionCache

\* A call with reuse disabled is in flight on a socket of its own while the
\* live cached connection of the same host:port, with its session, is as it
\* was.
C25_Witness ==
  \E t \in TaskIds :
    /\ tasks[t].pc = "inflight" /\ ~tasks[t].reuseSocket
    /\ Live(State, TaskKey(t))
    /\ LET c == MapGet(connectionCache, TaskKey(t))
       IN  /\ c # t /\ connections[c].session # 0
           /\ ~sessions[connections[c].session].closed

\* The sockets opened so far, each a TLS connection attempt.
Opened == { s \in TaskIds : sockets[s].state # "none" }

\* C26: a step opens no more sockets than calls start in it; a call goes from
\* its connection attempt to its one request or to rejection, and from its
\* request to resolution or rejection, never back; the step in which a call
\* rejects opens no socket; a settled call does nothing more; and a
\* connection attempt that has succeeded or failed is never started again.
C26_NoInternalRetry ==
  [][ /\ Cardinality(Opened' \ Opened) <=
           Cardinality({ t \in TaskIds : tasks[t].pc = "idle" /\ tasks'[t].pc # "idle" })
      /\ \A t \in TaskIds :
           /\ tasks[t].pc = "connecting" =>
                tasks'[t].pc \in {"connecting", "inflight", "rejected"}
           /\ tasks[t].pc = "inflight" =>
                tasks'[t].pc \in {"inflight", "resolved", "rejected"}
           /\ ~Settled(tasks[t]) /\ tasks'[t].pc = "rejected" => Opened' = Opened
           /\ Settled(tasks[t]) => tasks'[t] = tasks[t]
           /\ sockets[t].state \in {"connected", "failed"} =>
                sockets'[t].state = sockets[t].state
    ]_vars

\* One call was rejected after its connect failed and another after an error
\* of its request, and two sockets were opened in all.
C26_Witness ==
  \E t \in TaskIds, u \in TaskIds :
    /\ tasks[t].pc = "rejected" /\ sockets[t].state = "failed"
    /\ tasks[u].pc = "rejected" /\ sockets[u].state = "connected"
    /\ Cardinality(Opened) = 2

\* C27: the value a request resolves with, on either path, has as
\* alpnProtocol the protocol negotiated on the socket the request was in
\* flight on, and "undefined" exactly when none was negotiated on it (looked
\* at in the step that resolves it, where multipleRequests still holds it).
C27_ResultAlpnIsNegotiated ==
  [][ \A i \in 1..Len(batch.issued) :
        LET t == batch.issued[i]
        IN  /\ tasks[t].pc = "inflight" /\ tasks'[t].pc = "resolved"
            /\ i <= Len(batch'.results)
            =>
              LET negotiated == sockets[TaskSocket(State, t)].alpnProtocol
                  result == batch'.results[i]
              IN  /\ result.request = t
                  /\ negotiated \in AlpnResults
                  /\ negotiated # "false" => result.alpnProtocol = negotiated
                  /\ negotiated = "false" <=> result.alpnProtocol = "undefined"
                  /\ result.httpVersion = "2.0" <=> tasks[t].path = "http2"
    ]_vars

\* Requests have resolved on sockets without a negotiated protocol, with
\* http/1.1 and with h2.
C27_Witness ==
  \E i \in Received, j \in Received, l \in Received :
    /\ batch.results[i].alpnProtocol = "undefined"
    /\ batch.results[j].alpnProtocol = "h2" /\ batch.results[j].httpVersion = "2.0"
    /\ batch.results[l].alpnProtocol = "http/1.1"

\* The sockets of the requests multipleRequests has made.
BatchSockets == { batch.issued[i] : i \in 1..Len(batch.issued) }

\* C28: multipleRequests resolves with count responses, the i-th being the
\* value of the i-th request it made.  With count = 0 the call makes no
\* request, opens no socket, leaves the cache as it is and resolves with an
\* empty list at once.  With reuse disabled the call starts all count
\* requests in its first step, each on a socket of its own; none of these
\* sockets enters the cache, no step of its requests changes the cache, and when
\* the batch resolves count handshakes have been made for it.
C28_BatchCountAndConcurrency ==
  /\ [] ( /\ batch.pc = "resolved" =>
               /\ Len(batch.responses) = batch.count
               /\ Len(batch.issued) = batch.count
               /\ Cardinality(BatchSockets) = batch.count
               /\ \A i \in 1..batch.count :
                    /\ batch.responses[i].request = batch.issued[i]
                    /\ tasks[batch.issued[i]].pc = "resolved"
          /\ batch.pc \in {"all", "resolved"} /\ ~batch.reuseSocket =>
               /\ Len(batch.issued) = batch.count
               /\ \A t \in BatchSockets :
                    /\ sockets[t].state \in {"connecting", "connected"}
                    /\ tasks[t].pc = "inflight" => TaskSocket(State, t) = t
                    /\ \A i \in 1..Len(connectionCache) :
                         connections[connectionCache[i].connection].socket # t
               /\ batch.pc = "resolved" =>
                    Cardinality({ t \in BatchSockets : sockets[t].state = "connected" })
                      = batch.count )
  /\ [][ /\ batch.pc = "idle" /\ batch'.pc # "idle" /\ batch'.count = 0 =>
              /\ batch'.pc = "resolved" /\ batch'.responses = <<>>
              /\ batch'.issued = <<>>
              /\ connectionCache' = connectionCache
              /\ sockets' = sockets /\ tasks' = tasks
              /\ sessions' = sessions /\ connections' = connections
         /\ batch.pc = "idle" /\ batch'.pc # "idle" /\ ~batch'.reuseSocket =>
              /\ Len(batch'.issued) = batch'.count
              /\ connectionCache' = connectionCache
              /\ \A i \in 1..Len(batch'.issued) :
                   LET t == batch'.issued[i]
                   IN  /\ tasks[t].pc = "idle" /\ tasks'[t].pc = "connecting"
                       /\ sockets[t].state = "none" /\ sockets'[t].state = "connecting"
         /\ batch.pc = "all" /\ ~batch.reuseSocket =>
              \A t \in BatchSockets :
                tasks'[t] # tasks[t] => connectionCache' = connectionCache
       ]_vars

\* A batch of three requests with reuse disabled has resolved after three
\* handshakes of its own, while the cache holds the one connection an earlier
\* request() left in it.
C28_Witness ==
  /\ batch.pc = "resolved" /\ ~batch.reuseSocket /\ batch.count >= 3
  /\ Len(batch.responses) = batch.count
  /\ \A t \in BatchSockets : sockets[t].state = "connected"
  /\ Len(connectionCache) = 1
  /\ connections[connectionCache[1].connection].socket \notin BatchSockets

\* The secureConnection events of connection c in the log.
SecureConnectionEvents(c) ==
  { i \in 1..Len(events) : events[i].type = "secureConnection" /\ events[i].connection = c }

\* C29 as stated: for every connection whose handshake is complete the log
\* holds exactly one secureConnection event, which carries the client's
\* protocol list, the protocol selected for that connection and, equal to
\* it, the negotiated alpnProtocol of that connection.
C29_OneEventPerHandshake ==
  \A c \in ConnectionIds : handshakes[c].phase \in {"secure", "requested"} =>
    /\ Cardinality(SecureConnectionEvents(c)) = 1
    /\ \A i \in SecureConnectionEvents(c) :
         /\ events[i].clientProtocols = ALPNProtocols
         /\ events[i].selectedProtocol = handshakes[c].selected
         /\ events[i].alpnProtocol = handshakes[c].selected

\* The port of a URL: the one it names, 443 when it names none.
UrlPort(url) == IF url.port = "" THEN DefaultPort ELSE ParseInt(url.port)

\* C30 as stated: the key of a call is its URL's hostname with the URL's
\* port, 443 when the URL has none; calls whose URLs have the same hostname
\* and port have the same key whatever their paths; and calls whose URLs
\* differ in hostname or port have different keys and are never in flight on
\* the same transport.
C30_KeyIsHostAndPort ==
  \A t \in TaskIds, u \in TaskIds :
    tasks[t].pc # "idle" /\ tasks[u].pc # "idle" =>
      /\ TaskKey(t) = <<tasks[t].url.hostname, UrlPort(tasks[t].url)>>
      /\ ( tasks[t].url.hostname = tasks[u].url.hostname
           /\ UrlPort(tasks[t].url) = UrlPort(tasks[u].url) ) => TaskKey(t) = TaskKey(u)
      /\ ( tasks[t].url.hostname # tasks[u].url.hostname
           \/ UrlPort(tasks[t].url) # UrlPort(tasks[u].url) ) =>
             /\ TaskKey(t) # TaskKey(u)
             /\ tasks[t].pc = "inflight" /\ tasks[u].pc = "inflight" =>
                  TaskSocket(State, t) # TaskSocket(State, u)

\* What the two versions of the client can be compared on: everything but
\* the reuseSocket argument, which one of them does not have.
Comparable(S) ==
  [S EXCEPT !.tasks = [t \in TaskIds |-> [@[t] EXCEPT !.reuseSocket = FALSE]]]

\* C31: in every state that request(url, true) and closeAll() calls lead to,
\* the next step of request(url) of the client without the reuseSocket
\* parameter and the next step of request(url, true) give the same state,
\* both for a new call (lookup, eviction, handshake started or request
\* dispatched on the cached connection) and for a call that resumes after
\* its handshake (cache store and dispatch by the negotiated protocol); so
\* the two produce the same handshakes, cache contents and dispatch
\* decisions along every sequence of calls.
C31_VersionsAgreeOnReuse ==
  /\ Started < MaxTasks /\ FreeTasks > Reserved =>
       \A url \in TwoKeyURLs :
         Comparable(RequestStartReuseOnly(State, NextTaskOf(State), url))
           = Comparable(RequestStart(State, NextTaskOf(State), url, TRUE))
  /\ \A t \in TaskIds, alpn \in AlpnResults :
       tasks[t].pc = "connecting" =>
         Comparable(RequestResumeReuseOnly(SecureConnect(State, t, alpn), t))
           = Comparable(RequestResume(SecureConnect(State, t, alpn), t))

\* A call is in flight on the cached connection that an earlier call opened
\* and stored: the lookup of the second call found the entry live, and no
\* second handshake was made.
C31_Witness ==
  \E t \in TaskIds :
    /\ tasks[t].pc = "inflight" /\ tasks[t].branch = "hit"
    /\ tasks[t].connection # t
    /\ MapHas(connectionCache, TaskKey(t))
    /\ MapGet(connectionCache, TaskKey(t)) = tasks[t].connection
    /\ Handshakes(TaskKey(t)) = 1

====
